---- MODULE Spec2Model ----
(***************************************************************************)
(* A model of checkmbeditors.py: the escaped-text decoder unescape_pg, the *)
(* two table readers load_editors and count_applied_edits, the ranking and *)
(* CSV writing of main, and the file discovery of ensure_required_files.   *)
(*                                                                         *)
(* A character is its Unicode code point (what ord() gives), a string is a *)
(* sequence of code points.  Python's None is the record None below.       *)
(***************************************************************************)
EXTENDS Integers, Sequences, FiniteSets, TLC

(***************************************************************************)
(* Characters                                                              *)
(***************************************************************************)
Printable ==
    << " ", "!", "\"", "#", "$", "%", "&", "'", "(", ")", "*", "+", ",", "-",
       ".", "/", "0", "1", "2", "3", "4", "5", "6", "7", "8", "9", ":", ";",
       "<", "=", ">", "?", "@", "A", "B", "C", "D", "E", "F", "G", "H", "I",
       "J", "K", "L", "M", "N", "O", "P", "Q", "R", "S", "T", "U", "V", "W",
       "X", "Y", "Z", "[", "\\", "]", "^", "_", "grave", "a", "b", "c", "d", "e",
       "f", "g", "h", "i", "j", "k", "l", "m", "n", "o", "p", "q", "r", "s",
       "t", "u", "v", "w", "x", "y", "z", "{", "|", "}", "~" >>

\* ord(c) of a one-character string: printable ASCII starts at 32.
Ord(c) ==
    CASE c = "\t" -> 9
      [] c = "\n" -> 10
      [] c = "\r" -> 13
      [] OTHER -> 31 + (CHOOSE k \in DOMAIN Printable : Printable[k] = c)

\* The string whose characters are the one-character strings of cs.
Text(cs) == [k \in DOMAIN cs |-> Ord(cs[k])]

BSLASH == Ord("\\")
TAB    == Ord("\t")
NL     == Ord("\n")
CR     == Ord("\r")
QUOTE  == Ord("\"")
COMMA  == Ord(",")

\* U+00B2 SUPERSCRIPT TWO: str.isdigit() is True for it, str.isdecimal() False.
SuperTwo == 16 * 11 + 2

\* str.isdecimal() on the code points chr(int(octs, 8)) can produce (0..511).
IsDecimal(c) == c \in Ord("0") .. Ord("9")

\* str.isdigit() on the same range: the decimal digits and the superscripts
\* U+00B2, U+00B3, U+00B9.
IsDigit(c) == IsDecimal(c) \/ c \in {SuperTwo, SuperTwo + 1, SuperTwo + 7}

None    == [null |-> TRUE,  s |-> << >>]
Some(s) == [null |-> FALSE, s |-> s]

\* The value of (x or the empty string) for x a string or None.
OrEmpty(x) == IF x.null THEN << >> ELSE x.s

(***************************************************************************)
(* unescape_pg                                                             *)
(***************************************************************************)
\* range(2): the digits taken after the first one.
MaxExtraDigits == 2

\* int(octs, 8) for octs a run of isdigit() characters: every character must
\* be one of 0..7, anything else raises ValueError.
OctOk(octs) == \A k \in DOMAIN octs : octs[k] \in Ord("0") .. Ord("7")

RECURSIVE OctValue(_)
OctValue(octs) ==
    IF octs = << >> THEN 0
    ELSE 8 * OctValue(SubSeq(octs, 1, Len(octs) - 1))
         + (octs[Len(octs)] - Ord("0"))

\* The for loop of lines 62-67: the number of further digits taken from the
\* 0-based position i, at most n of them.
RECURSIVE ExtraDigits(_, _, _)
ExtraDigits(s, i, n) ==
    IF n > 0 /\ i < Len(s) /\ IsDigit(s[i + 1])
    THEN 1 + ExtraDigits(s, i + 1, n - 1)
    ELSE 0

\* A variant of EscapeChar that knows no \t.
EscapeCharNoTab(nxt) ==
    IF nxt = Ord("n") THEN NL
    ELSE IF nxt = Ord("r") THEN CR
    ELSE nxt

\* Lines 52-59 and 72-73: what a backslash followed by the non-digit
\* character nxt decodes to.
EscapeChar(nxt) ==
    IF nxt = Ord("n") THEN NL
    ELSE IF nxt = Ord("r") THEN CR
    ELSE IF nxt = Ord("t") THEN TAB
    ELSE IF nxt = BSLASH THEN BSLASH
    ELSE nxt

\* One pass of the while loop at the 0-based position i < Len(s):
\* the new position, the new output and whether the loop was left by break.
UnescapeIter(s, i, out) ==
    LET ch == s[i + 1] IN
    IF ch # BSLASH
    THEN [i |-> i + 1, out |-> Append(out, ch), brk |-> FALSE]
    ELSE IF i + 1 >= Len(s)
    THEN [i |-> i + 1, out |-> Append(out, BSLASH), brk |-> TRUE]
    ELSE
      LET nxt == s[i + 2]
          j   == i + 2
      IN  IF nxt \in {Ord("n"), Ord("r"), Ord("t"), BSLASH} \/ ~IsDigit(nxt)
          THEN [i |-> j, out |-> Append(out, EscapeChar(nxt)), brk |-> FALSE]
          ELSE
            LET n    == ExtraDigits(s, j, MaxExtraDigits)
                octs == SubSeq(s, j, j + n)
            IN  [i   |-> j + n,
                 out |-> IF OctOk(octs)
                         THEN Append(out, OctValue(octs))
                         ELSE out \o << BSLASH >> \o octs,
                 brk |-> FALSE]

HasBackslash(s) == \E k \in DOMAIN s : s[k] = BSLASH

NullToken == << BSLASH, Ord("N") >>

RECURSIVE UnescapeLoop(_, _, _)
UnescapeLoop(s, i, out) ==
    IF i < Len(s)
    THEN LET r == UnescapeIter(s, i, out)
         IN  IF r.brk THEN r.out ELSE UnescapeLoop(s, r.i, r.out)
    ELSE out

unescape_pg(v) ==
    IF v = NullToken THEN None
    ELSE IF ~HasBackslash(v) THEN Some(v)
    ELSE Some(UnescapeLoop(v, 0, << >>))

(***************************************************************************)
(* int(), str.split, str.rstrip, str()                                     *)
(***************************************************************************)
\* The whitespace int() skips on both sides of an ASCII string.
IsSpace(c) == c \in {Ord("\t"), Ord("\n"), Ord("\t") + 2, Ord("\t") + 3, Ord("\r"), Ord(" ")}

RECURSIVE LStrip(_)
LStrip(s) ==
    IF s # << >> /\ IsSpace(s[1]) THEN LStrip(Tail(s)) ELSE s

RECURSIVE RStrip(_)
RStrip(s) ==
    IF s # << >> /\ IsSpace(s[Len(s)])
    THEN RStrip(SubSeq(s, 1, Len(s) - 1))
    ELSE s

\* The digits of an int() literal: decimal digits, single underscores only
\* between two digits.
DigitsOk(b) ==
    /\ b # << >>
    /\ \A k \in DOMAIN b :
         \/ IsDecimal(b[k])
         \/ /\ b[k] = Ord("_")
            /\ 1 < k /\ k < Len(b)
            /\ IsDecimal(b[k - 1]) /\ IsDecimal(b[k + 1])

RECURSIVE DigitsValue(_)
DigitsValue(b) ==
    IF b = << >> THEN 0
    ELSE LET init == SubSeq(b, 1, Len(b) - 1)
             c    == b[Len(b)]
         IN  IF c = Ord("_") THEN DigitsValue(init)
             ELSE 10 * DigitsValue(init) + (c - Ord("0"))

\* int(s): ok is FALSE where int raises ValueError.
IntParse(s) ==
    LET t    == RStrip(LStrip(s))
        sgn  == t # << >> /\ t[1] \in {Ord("+"), Ord("-")}
        body == IF sgn THEN Tail(t) ELSE t
    IN  IF DigitsOk(body)
        THEN [ok |-> TRUE,
              v  |-> IF sgn /\ t[1] = Ord("-") THEN 0 - DigitsValue(body)
                     ELSE DigitsValue(body)]
        ELSE [ok |-> FALSE, v |-> 0]

\* line.rstrip("\n")
RECURSIVE RStripNL(_)
RStripNL(s) ==
    IF s # << >> /\ s[Len(s)] = NL
    THEN RStripNL(SubSeq(s, 1, Len(s) - 1))
    ELSE s

\* s.split("\t")
RECURSIVE SplitTab(_)
SplitTab(s) ==
    IF \E k \in DOMAIN s : s[k] = TAB
    THEN LET k == CHOOSE k \in DOMAIN s :
                     s[k] = TAB /\ \A m \in 1 .. (k - 1) : s[m] # TAB
         IN  << SubSeq(s, 1, k - 1) >> \o SplitTab(SubSeq(s, k + 1, Len(s)))
    ELSE << s >>

Parts(line) == SplitTab(RStripNL(line))

\* str(n) for an integer n
RECURSIVE NatToStr(_)
NatToStr(n) ==
    IF n < 10 THEN << Ord("0") + n >>
    ELSE Append(NatToStr(n \div 10), Ord("0") + (n % 10))

IntToStr(n) == IF n < 0 THEN << Ord("-") >> \o NatToStr(0 - n) ELSE NatToStr(n)

Min(a, b) == IF a < b THEN a ELSE b

(***************************************************************************)
(* load_editors and count_applied_edits: the body of the loop over lines   *)
(***************************************************************************)
\* A wrong status code: 1 is MusicBrainz's STATUS_OPEN.
StatusOpenCode == 2 - 1

APPLIED_STATUS_CODE == 2

\* dict assignment d[k] = v
Put(d, k, v) == [x \in (DOMAIN d) \cup {k} |-> IF x = k THEN v ELSE d[x]]

\* A variant of LoadEditorsLine that keeps the first name seen for an id.
LoadEditorsLineKeepFirst(names, line) ==
    LET parts == Parts(line) IN
    IF Len(parts) < 2 THEN names
    ELSE LET eid == IntParse(parts[1]) IN
         IF ~eid.ok \/ eid.v \in DOMAIN names THEN names
         ELSE Put(names, eid.v, OrEmpty(unescape_pg(parts[2])))

\* The body of "for line in f" in load_editors: the new eid_to_name.
LoadEditorsLine(names, line) ==
    LET parts == Parts(line) IN
    IF Len(parts) < 2 THEN names
    ELSE LET eid == IntParse(parts[1]) IN
         IF ~eid.ok THEN names
         ELSE Put(names, eid.v, OrEmpty(unescape_pg(parts[2])))

\* counts[k] += 1 on a defaultdict(int) kept in insertion order: a sequence
\* of <<key, count>> pairs with distinct keys.
Increment(cnts, k) ==
    IF \E p \in DOMAIN cnts : cnts[p][1] = k
    THEN [p \in DOMAIN cnts |->
            IF cnts[p][1] = k THEN << k, cnts[p][2] + 1 >> ELSE cnts[p]]
    ELSE Append(cnts, << k, 1 >>)

\* A variant of CountLine that looks the editor's counter up before it parses
\* the status: the defaultdict then holds the key whatever the status is.
CountLineTouchFirst(cnts, line) ==
    LET parts == Parts(line) IN
    IF Len(parts) < 4 THEN cnts
    ELSE LET eid_raw    == unescape_pg(parts[2])
             status_raw == unescape_pg(parts[4])
         IN  IF eid_raw.null \/ status_raw.null THEN cnts
             ELSE LET status  == IntParse(status_raw.s)
                      eid     == IntParse(eid_raw.s)
                      touched == IF \E p \in DOMAIN cnts : cnts[p][1] = eid.v
                                 THEN cnts ELSE Append(cnts, << eid.v, 0 >>)
                  IN  IF ~eid.ok THEN cnts
                      ELSE IF ~status.ok THEN touched
                      ELSE IF status.v # APPLIED_STATUS_CODE THEN touched
                      ELSE Increment(cnts, eid.v)

\* The body of "for line in f" in count_applied_edits: the new counts.
CountLine(cnts, line) ==
    LET parts == Parts(line) IN
    IF Len(parts) < 4 THEN cnts
    ELSE LET eid_raw    == unescape_pg(parts[2])
             status_raw == unescape_pg(parts[4])
         IN  IF eid_raw.null \/ status_raw.null THEN cnts
             ELSE LET status == IntParse(status_raw.s)
                      eid    == IntParse(eid_raw.s)
                  IN  IF ~status.ok THEN cnts
                      ELSE IF status.v # APPLIED_STATUS_CODE THEN cnts
                      ELSE IF ~eid.ok THEN cnts
                      ELSE Increment(cnts, eid.v)

(***************************************************************************)
(* main: rows, sort, top 500; write_csv                                    *)
(***************************************************************************)
TopN == 500

\* f"(editor #{eid})"
Placeholder(eid) == Text(<< "(", "e", "d", "i", "t", "o", "r", " ", "#" >>)
                    \o IntToStr(eid) \o Text(<< ")" >>)

\* A variant of NameOf that takes the placeholder for an empty name too
\* (editors.get(eid) or placeholder).
NameOfOrPlaceholder(names, eid) ==
    IF eid \in DOMAIN names /\ names[eid] # << >>
    THEN names[eid] ELSE Placeholder(eid)

\* editors.get(eid, f"(editor #{eid})")
NameOf(names, eid) ==
    IF eid \in DOMAIN names THEN names[eid] ELSE Placeholder(eid)

\* The list comprehension over counts.items(): (eid, name, cnt) in the
\* mapping's insertion order.
BuildRows(names, cnts) ==
    [k \in DOMAIN cnts |-> << cnts[k][1], NameOf(names, cnts[k][1]), cnts[k][2] >>]

SetMax(S) == CHOOSE m \in S : \A x \in S : x <= m
SetMin(S) == CHOOSE m \in S : \A x \in S : m <= x

RowsWithCount(rs, c) == SelectSeq(rs, LAMBDA r : r[3] = c)

RECURSIVE ConcatDesc(_, _)
ConcatDesc(rs, keys) ==
    IF keys = {} THEN << >>
    ELSE LET m == SetMax(keys)
         IN  RowsWithCount(rs, m) \o ConcatDesc(rs, keys \ {m})

RECURSIVE Reverse(_)
Reverse(sq) ==
    IF sq = << >> THEN << >> ELSE Append(Reverse(Tail(sq)), sq[1])

RECURSIVE ConcatAsc(_, _)
ConcatAsc(rs, keys) ==
    IF keys = {} THEN << >>
    ELSE LET m == SetMin(keys)
         IN  RowsWithCount(rs, m) \o ConcatAsc(rs, keys \ {m})

\* A variant of SortRows: a stable ascending sort, then the list reversed
\* (sorted(rows, key=...)[::-1]), which turns rows of equal count around.
SortAscThenReverse(rs) == Reverse(ConcatAsc(rs, {rs[k][3] : k \in DOMAIN rs}))

\* rows.sort(key=lambda x: x[2], reverse=True): list.sort is stable, and with
\* reverse=True rows of equal key keep their original order.
SortRows(rs) == ConcatDesc(rs, {rs[k][3] : k \in DOMAIN rs})

\* A variant of TakeTop that does not cut the list.
TakeAll(rs) == rs

\* rows[:500]
TakeTop(rs) == SubSeq(rs, 1, Min(TopN, Len(rs)))

\* A variant of DoubleQuotes that leaves the quotes as they are.
KeepQuotes(s) == s

\* name.replace('"', '""')
RECURSIVE DoubleQuotes(_)
DoubleQuotes(s) ==
    IF s = << >> THEN << >>
    ELSE (IF s[1] = QUOTE THEN << QUOTE, QUOTE >> ELSE << s[1] >>)
         \o DoubleQuotes(Tail(s))

Contains(s, c) == \E k \in DOMAIN s : s[k] = c

\* The name field write_csv writes for a name.
SafeName(name) ==
    LET safe == DoubleQuotes(name) IN
    IF \E c \in {COMMA, NL, CR, QUOTE} : Contains(safe, c)
    THEN << QUOTE >> \o safe \o << QUOTE >>
    ELSE safe

CsvHeader == Text(<< "r", "a", "n", "k", ",", "e", "d", "i", "t", "o", "r", "_",
                     "i", "d", ",", "e", "d", "i", "t", "o", "r", "_", "n", "a",
                     "m", "e", ",", "a", "p", "p", "l", "i", "e", "d", "_", "e",
                     "d", "i", "t", "_", "c", "o", "u", "n", "t", "\n" >>)

\* The fields of the data lines write_csv writes: rank, editor id, name
\* field, count, for the rows numbered from 1.
CsvRows(rs) ==
    [k \in DOMAIN rs |-> << k, rs[k][1], SafeName(rs[k][2]), rs[k][3] >>]

(***************************************************************************)
(* Files, archives and extraction                                          *)
(***************************************************************************)
\* A file below the folder: << directory below the folder, directory below
\* that (normalised), name >>, the name being below mbdump/ but for the CSV.
EditorSanitisedPath == << "mbdump-editor", "", "editor_sanitised" >>
EditorPath          == << "mbdump-editor", "", "editor" >>
EditPath            == << "mbdump-edit", "", "edit" >>
CsvPath             == << "", "", "top_editors.csv" >>

\* An archive member << prefix, name >> is named prefix + "mbdump/" + name.
NoTar == [present |-> FALSE, readable |-> FALSE, members |-> << >>]

\* sorted(glob(prefix + "*.tar.bz2"))[0] in a folder that may hold
\* mbdump-edit.tar.bz2 and mbdump-editor.tar.bz2: the pattern for
\* "mbdump-edit" matches both names, and "mbdump-edit.tar.bz2" sorts first.
FindTar(ts, prefix) ==
    IF prefix = "mbdump-editor"
    THEN (IF ts.editor.present THEN "editor" ELSE "none")
    ELSE (IF ts.edit.present THEN "edit"
          ELSE IF ts.editor.present THEN "editor" ELSE "none")

\* Lines 150-156: the member taken for the wanted name "mbdump/" + name, as
\* a set: the member of exactly that name, else the first member, in the
\* archive's order, whose name ends with it, else none.
MemberFor(members, name) ==
    IF \E k \in DOMAIN members : members[k] = << "", name >>
    THEN {<< "", name >>}
    ELSE LET cands == {k \in DOMAIN members : members[k][2] = name}
         IN  IF cands = {} THEN {} ELSE {members[SetMin(cands)]}

\* tf.extract(m, path=target_root): the file it creates ("./" is no
\* directory of its own).
ExtractedPath(root, m) == << root, IF m[1] = "./" THEN "" ELSE m[1], m[2] >>

\* _extract_members: the files after the loop over the wanted names.
RECURSIVE ExtractMembers(_, _, _, _)
ExtractMembers(fs, members, root, wanted) ==
    IF wanted = << >> THEN fs
    ELSE ExtractMembers(
           fs \cup {ExtractedPath(root, m) : m \in MemberFor(members, wanted[1])},
           members, root, Tail(wanted))

\* Lines 172-174 and 195-197.
ResolveEditorFile(fs) ==
    IF EditorSanitisedPath \in fs THEN EditorSanitisedPath ELSE EditorPath

(***************************************************************************)
(* State                                                                   *)
(***************************************************************************)
VARIABLES
    val, i, out, dpc, ret,                  \* a call of unescape_pg
    pc,                                     \* where main is
    lines, eid_to_name, counts,             \* the two readers
    rows, top, csv,                         \* the ranking and the CSV
    files, tars,                            \* the folder
    editor_file, edit_file,                 \* ensure_required_files' paths
    attempts,                               \* the extractions attempted
    status,                                 \* "running", or the exit status
    opened                                  \* the tables opened for reading

decVars == << val, i, out, dpc, ret >>
tblVars == << lines, eid_to_name, counts, rows, top, csv >>
fsVars  == << files, tars, editor_file, edit_file, attempts, status, opened >>
vars    == << val, i, out, dpc, ret, pc, lines, eid_to_name, counts, rows, top,
              csv, files, tars, editor_file, edit_file, attempts, status, opened >>

DecIdle ==
    /\ val = << >> /\ i = 0 /\ out = << >> /\ dpc = "idle" /\ ret = None

TablesFresh ==
    /\ lines = << >> /\ eid_to_name = << >> /\ counts = << >>
    /\ rows = << >> /\ top = << >> /\ csv = << >>

\* The folder with both tables extracted, as ensure_required_files leaves
\* it when it returns.
FolderReady ==
    /\ files = {EditorSanitisedPath, EditPath}
    /\ tars = [editor |-> NoTar, edit |-> NoTar]
    /\ editor_file = EditorSanitisedPath
    /\ edit_file = EditPath
    /\ attempts = << >>
    /\ status = "running"

(***************************************************************************)
(* Bounds and inputs                                                       *)
(***************************************************************************)
MaxLen         == 5     \* length of a value given to unescape_pg
MaxEditorLines == 2     \* lines of the editor file
MaxEditLines   == 3     \* lines of the edit file
SmallRows      == 3     \* small count mappings given to the ranking
RankSlack      == 2     \* count mappings of TopN - RankSlack .. TopN + RankSlack ids
MaxMembers     == 2     \* members of an archive

DecodeAlphabet ==
    { BSLASH, Ord("N"), Ord("n"), Ord("r"), Ord("t"), Ord("1"), Ord("8"), SuperTwo }

DecodeInputs == UNION { [1 .. n -> DecodeAlphabet] : n \in 0 .. MaxLen }

EditorLines ==
    { Text(<< "7", "\t", "A", "l", "\n" >>),
      Text(<< "7", "\t", "B", ",", "\"", "\n" >>),
      Text(<< "8", "\t", "\\", "N", "\n" >>),
      Text(<< "8", "\t", "\n" >>),
      Text(<< "x", "\t", "Z", "\n" >>),
      Text(<< "7", "\n" >>),
      Text(<< "9", "\t", "a", "\\", "r", "b", "\t", "x" >>),
      Text(<< "\\", "0", "6", "7", "\t", "Q", "\n" >>) }

EditLines ==
    { Text(<< "1", "\t", "7", "\t", "1", "\t", "2", "\n" >>),
      Text(<< "2", "\t", "8", "\t", "1", "\t", "2", "\n" >>),
      Text(<< "3", "\t", "7", "\t", "1", "\t", "1", "\n" >>),
      Text(<< "4", "\t", "7", "\t", "2", "\n" >>),
      Text(<< "5", "\t", "\\", "N", "\t", "1", "\t", "2", "\n" >>),
      Text(<< "6", "\t", "7", "\t", "1", "\t", "\\", "N", "\n" >>),
      Text(<< "7", "\t", "x", "\t", "1", "\t", "2", "\n" >>),
      Text(<< "8", "\t", "7", "\t", "1", "\t", "x", "\n" >>),
      Text(<< "9", "\t", "\\", "0", "6", "7", "\t", "1", "\t", "\\", "0", "6", "2", "\n" >>),
      Text(<< "1", "\t", " ", "9", "\t", "1", "\t", "+", "2", "\t", "0" >>),
      Text(<< "1", "\t", "-", "3", "\t", "1", "\t", "0", "2", "\n" >>),
      Text(<< "\n" >>) }

\* The members an archive may hold, at most MaxMembers of them, each once.
MemberLists(pool) ==
    { m \in UNION { [1 .. n -> pool] : n \in 0 .. MaxMembers } :
        \A a, b \in DOMAIN m : m[a] = m[b] => a = b }

EditorTarPool == {"", "./", "x/"} \X {"editor_sanitised", "editor"}
EditTarPool   == ({"", "./", "x/"} \X {"edit"}) \cup {<< "", "edit_data" >>}

Tars(pool) ==
    {NoTar, [present |-> TRUE, readable |-> FALSE, members |-> << >>]}
    \cup {[present |-> TRUE, readable |-> TRUE, members |-> m] : m \in MemberLists(pool)}

(***************************************************************************)
(* unescape_pg, one step at a time                                         *)
(***************************************************************************)
\* Lines 32-39: the null token, the fast path, or the start of the loop.
UnescapeEnter ==
    /\ dpc = "enter"
    /\ IF val = NullToken
       THEN dpc' = "done" /\ ret' = None /\ UNCHANGED << i, out >>
       ELSE IF ~HasBackslash(val)
       THEN dpc' = "done" /\ ret' = Some(val) /\ UNCHANGED << i, out >>
       ELSE dpc' = "loop" /\ i' = 0 /\ out' = << >> /\ UNCHANGED ret
    /\ UNCHANGED << val, pc, tblVars, fsVars >>

\* Lines 40-73: one pass of the while loop.
UnescapeStep ==
    /\ dpc = "loop"
    /\ i < Len(val)
    /\ LET r == UnescapeIter(val, i, out)
       IN  /\ i' = r.i
           /\ out' = r.out
           /\ dpc' = IF r.brk THEN "join" ELSE "loop"
    /\ UNCHANGED << val, ret, pc, tblVars, fsVars >>

\* Line 40 with i >= L, and line 74.
UnescapeReturn ==
    /\ \/ dpc = "loop" /\ i >= Len(val)
       \/ dpc = "join"
    /\ dpc' = "done"
    /\ ret' = Some(out)
    /\ UNCHANGED << val, i, out, pc, tblVars, fsVars >>

InitDecode ==
    /\ val \in DecodeInputs
    /\ i = 0 /\ out = << >> /\ dpc = "enter" /\ ret = None
    /\ pc = "idle" /\ TablesFresh /\ FolderReady /\ opened = {}

NextDecode == UnescapeEnter \/ UnescapeStep \/ UnescapeReturn

SpecDecode == InitDecode /\ [][NextDecode]_vars

\* The decoder never stops before it returns.
FairDecode == SpecDecode /\ WF_vars(NextDecode)

(***************************************************************************)
(* ensure_required_files                                                   *)
(***************************************************************************)
\* Lines 169-176.
EnsureResolve ==
    /\ pc = "ensure"
    /\ editor_file' = ResolveEditorFile(files)
    /\ edit_file' = EditPath
    /\ pc' = "check_editor"
    /\ UNCHANGED << files, tars, attempts, status, opened, tblVars, decVars >>

\* Line 179: the editor file is there.
EnsureEditorPresent ==
    /\ pc = "check_editor"
    /\ editor_file \in files
    /\ pc' = "check_edit"
    /\ UNCHANGED << fsVars, tblVars, decVars >>

\* Lines 180-188: no editor file and no archive: sys.exit(message).
EnsureEditorNoTar ==
    /\ pc = "check_editor"
    /\ editor_file \notin files
    /\ FindTar(tars, "mbdump-editor") = "none"
    /\ pc' = "exit"
    /\ status' = "1"
    /\ UNCHANGED << files, tars, editor_file, edit_file, attempts, opened,
                    tblVars, decVars >>

\* Lines 189-197: the archive is opened and the wanted members extracted; an
\* archive tarfile cannot read raises, which ends the process with status 1.
EnsureEditorExtract ==
    /\ pc = "check_editor"
    /\ editor_file \notin files
    /\ FindTar(tars, "mbdump-editor") # "none"
    /\ LET t == tars[FindTar(tars, "mbdump-editor")] IN
       /\ attempts' = Append(attempts, << "editor", FindTar(tars, "mbdump-editor") >>)
       /\ IF t.readable
          THEN /\ files' = ExtractMembers(files, t.members, "mbdump-editor",
                                          << "editor_sanitised", "editor" >>)
               /\ editor_file' = ResolveEditorFile(files')
               /\ pc' = "check_edit"
               /\ UNCHANGED status
          ELSE /\ pc' = "exit"
               /\ status' = "1"
               /\ UNCHANGED << files, editor_file >>
    /\ UNCHANGED << tars, edit_file, opened, tblVars, decVars >>

\* Line 199: the edit file is there.
EnsureEditPresent ==
    /\ pc = "check_edit"
    /\ edit_file \in files
    /\ pc' = "check_final"
    /\ UNCHANGED << fsVars, tblVars, decVars >>

\* Lines 200-208.
EnsureEditNoTar ==
    /\ pc = "check_edit"
    /\ edit_file \notin files
    /\ FindTar(tars, "mbdump-edit") = "none"
    /\ pc' = "exit"
    /\ status' = "1"
    /\ UNCHANGED << files, tars, editor_file, edit_file, attempts, opened,
                    tblVars, decVars >>

\* Lines 209-214.
EnsureEditExtract ==
    /\ pc = "check_edit"
    /\ edit_file \notin files
    /\ FindTar(tars, "mbdump-edit") # "none"
    /\ LET t == tars[FindTar(tars, "mbdump-edit")] IN
       /\ attempts' = Append(attempts, << "edit", FindTar(tars, "mbdump-edit") >>)
       /\ IF t.readable
          THEN /\ files' = ExtractMembers(files, t.members, "mbdump-edit",
                                          << "edit", "edit_data" >>)
               /\ pc' = "check_final"
               /\ UNCHANGED status
          ELSE /\ pc' = "exit"
               /\ status' = "1"
               /\ UNCHANGED files
    /\ UNCHANGED << tars, editor_file, edit_file, opened, tblVars, decVars >>

\* Lines 216-221: a file is still missing: sys.exit(message).
EnsureFinalMissing ==
    /\ pc = "check_final"
    /\ editor_file \notin files \/ edit_file \notin files
    /\ pc' = "exit"
    /\ status' = "1"
    /\ UNCHANGED << files, tars, editor_file, edit_file, attempts, opened,
                    tblVars, decVars >>

\* A variant of EnsureReturn whose last check looks at the editor file only.
EnsureReturnEditorOnly ==
    /\ pc = "check_final"
    /\ editor_file \in files
    /\ pc' = "open_editors"
    /\ UNCHANGED << fsVars, tblVars, decVars >>

\* Line 223: both files are there, ensure_required_files returns.
EnsureReturn ==
    /\ pc = "check_final"
    /\ editor_file \in files /\ edit_file \in files
    /\ pc' = "open_editors"
    /\ UNCHANGED << fsVars, tblVars, decVars >>

(***************************************************************************)
(* main after ensure_required_files                                        *)
(***************************************************************************)
\* "for line in f" gives a line after the lines given so far: every line of a
\* file but its last ends with a newline.
MoreLines(ls) ==
    IF ls = << >> THEN TRUE
    ELSE LET last == ls[Len(ls)]
         IN  IF last = << >> THEN FALSE ELSE last[Len(last)] = NL

\* Line 79: load_editors opens the editor file.
LoadEditorsOpen ==
    /\ pc = "open_editors"
    /\ editor_file \in files
    /\ opened' = opened \cup {editor_file}
    /\ lines' = << >>
    /\ pc' = "load"
    /\ UNCHANGED << eid_to_name, counts, rows, top, csv, files, tars,
                    editor_file, edit_file, attempts, status, decVars >>

\* load_editors reads one more line.
LoadEditorsRead ==
    /\ pc = "load"
    /\ Len(lines) < MaxEditorLines
    /\ MoreLines(lines)
    /\ \E line \in EditorLines :
         /\ lines' = Append(lines, line)
         /\ eid_to_name' = LoadEditorsLine(eid_to_name, line)
    /\ UNCHANGED << pc, counts, rows, top, csv, fsVars, decVars >>

\* The editor file is exhausted: load_editors returns.
LoadEditorsReturn ==
    /\ pc = "load"
    /\ pc' = "open_edit"
    /\ lines' = << >>
    /\ UNCHANGED << eid_to_name, counts, rows, top, csv, fsVars, decVars >>

\* Line 102: count_applied_edits opens the edit file.
CountOpen ==
    /\ pc = "open_edit"
    /\ edit_file \in files
    /\ opened' = opened \cup {edit_file}
    /\ lines' = << >>
    /\ pc' = "count"
    /\ UNCHANGED << eid_to_name, counts, rows, top, csv, files, tars,
                    editor_file, edit_file, attempts, status, decVars >>

\* count_applied_edits reads one more line.
CountRead ==
    /\ pc = "count"
    /\ Len(lines) < MaxEditLines
    /\ MoreLines(lines)
    /\ \E line \in EditLines :
         /\ lines' = Append(lines, line)
         /\ counts' = CountLine(counts, line)
    /\ UNCHANGED << pc, eid_to_name, rows, top, csv, fsVars, decVars >>

\* The edit file is exhausted: count_applied_edits returns.
CountReturn ==
    /\ pc = "count"
    /\ pc' = "rows"
    /\ lines' = << >>
    /\ UNCHANGED << eid_to_name, counts, rows, top, csv, fsVars, decVars >>

\* Lines 237-240.
MainRows ==
    /\ pc = "rows"
    /\ rows' = BuildRows(eid_to_name, counts)
    /\ pc' = "sort"
    /\ UNCHANGED << lines, eid_to_name, counts, top, csv, fsVars, decVars >>

\* Line 241.
MainSort ==
    /\ pc = "sort"
    /\ rows' = SortRows(rows)
    /\ pc' = "top"
    /\ UNCHANGED << lines, eid_to_name, counts, top, csv, fsVars, decVars >>

\* Line 242.
MainTop ==
    /\ pc = "top"
    /\ top' = TakeTop(rows)
    /\ pc' = "write"
    /\ UNCHANGED << lines, eid_to_name, counts, rows, csv, fsVars, decVars >>

\* Lines 244-250: the header and the data lines of top_editors.csv are
\* written, and main returns.
MainWrite ==
    /\ pc = "write"
    /\ csv' = << CsvHeader >> \o CsvRows(top)
    /\ files' = files \cup {CsvPath}
    /\ status' = "0"
    /\ pc' = "done"
    /\ UNCHANGED << lines, eid_to_name, counts, rows, top, tars, editor_file,
                    edit_file, attempts, opened, decVars >>

\* main from the return of ensure_required_files, the tables extracted.
Init ==
    /\ DecIdle
    /\ pc = "open_editors" /\ TablesFresh /\ FolderReady /\ opened = {}

Next ==
    \/ LoadEditorsOpen \/ LoadEditorsRead \/ LoadEditorsReturn
    \/ CountOpen \/ CountRead \/ CountReturn
    \/ MainRows \/ MainSort \/ MainTop \/ MainWrite

Spec == Init /\ [][Next]_vars

(***************************************************************************)
(* main from its start, in a folder of any content, the tables empty       *)
(***************************************************************************)
InitFiles ==
    /\ DecIdle
    /\ pc = "ensure" /\ TablesFresh
    /\ files \in SUBSET {EditorSanitisedPath, EditorPath, EditPath}
    /\ tars \in [editor : Tars(EditorTarPool), edit : Tars(EditTarPool)]
    /\ editor_file = EditorPath
    /\ edit_file = EditPath
    /\ attempts = << >>
    /\ status = "running"
    /\ opened = {}

NextFiles ==
    \/ EnsureResolve
    \/ EnsureEditorPresent \/ EnsureEditorNoTar \/ EnsureEditorExtract
    \/ EnsureEditPresent \/ EnsureEditNoTar \/ EnsureEditExtract
    \/ EnsureFinalMissing \/ EnsureReturn
    \/ LoadEditorsOpen \/ LoadEditorsReturn
    \/ CountOpen \/ CountReturn
    \/ MainRows \/ MainSort \/ MainTop \/ MainWrite

SpecFiles == InitFiles /\ [][NextFiles]_vars

\* The process runs on until it ends.
FairFiles == SpecFiles /\ WF_vars(NextFiles)

(***************************************************************************)
(* The ranking alone, from a name mapping and a count mapping               *)
(***************************************************************************)
RankSizes == (0 .. SmallRows) \cup ((TopN - RankSlack) .. (TopN + RankSlack))

\* The count of the k-th id inserted: all equal, three values in turn, or
\* growing with k in steps.
CountAt(p, k) ==
    CASE p = 1 -> 1
      [] p = 2 -> 1 + (k % 3)
      [] p = 3 -> 1 + (k \div 100)

\* The k-th id inserted, of n: ids in growing or in falling order.
IdAt(q, k, n) == IF q = 1 THEN k ELSE n + 1 - k

RankCounts ==
    { [k \in 1 .. n |-> << IdAt(q, k, n), CountAt(p, k) >>] :
        n \in RankSizes, p \in 1 .. 3, q \in 1 .. 2 }

RankNames ==
    { << >>,
      Put(Put(Put(<< >>, 1, << >>), 2, Text(<< "B", ",", "\"" >>)),
          TopN + 1, Text(<< "A", "l" >>)) }

\* main after count_applied_edits has returned.
InitRank ==
    /\ DecIdle
    /\ pc = "rows"
    /\ lines = << >>
    /\ eid_to_name \in RankNames
    /\ counts \in RankCounts
    /\ rows = << >> /\ top = << >> /\ csv = << >>
    /\ FolderReady /\ opened = {editor_file, edit_file}

NextRank == MainRows \/ MainSort \/ MainTop \/ MainWrite

SpecRank == InitRank /\ [][NextRank]_vars

(***************************************************************************)
(* Properties of unescape_pg (checked under SpecDecode)                    *)
(***************************************************************************)
\* A step of the decoder that moved it.
DecoderMoved == << i, out, dpc, ret >>' # << i, out, dpc, ret >>

\* C5: unescape_pg returns the null marker exactly for the input \N; a value
\* without a backslash is returned unchanged; otherwise the output is built
\* left to right: a character other than a backslash is copied, \n \r \t \\
\* become newline, carriage return, tab and one backslash, a backslash before
\* any other character that is not a digit (in str.isdigit's sense) is dropped
\* and the character kept, a lone backslash at the end is kept, and the
\* string returned is the output so built.
C5Step ==
    /\ (dpc = "enter" /\ DecoderMoved) =>
         /\ val = NullToken => (dpc' = "done" /\ ret' = None)
         /\ (val # NullToken /\ ~HasBackslash(val)) =>
              (dpc' = "done" /\ ret' = Some(val))
         /\ (val # NullToken /\ HasBackslash(val)) =>
              (dpc' = "loop" /\ i' = 0 /\ out' = << >>)
    /\ (dpc = "loop" /\ i < Len(val) /\ DecoderMoved) =>
         LET ch == val[i + 1] IN
         /\ ch # BSLASH =>
              (out' = Append(out, ch) /\ i' = i + 1 /\ dpc' = "loop")
         /\ (ch = BSLASH /\ i + 1 = Len(val)) =>
              (out' = Append(out, BSLASH) /\ dpc' = "join")
         /\ (ch = BSLASH /\ i + 1 < Len(val)) =>
              LET nxt == val[i + 2] IN
              /\ nxt = Ord("n") => out' = Append(out, NL)
              /\ nxt = Ord("r") => out' = Append(out, CR)
              /\ nxt = Ord("t") => out' = Append(out, TAB)
              /\ nxt = BSLASH => out' = Append(out, BSLASH)
              /\ (nxt \notin {Ord("n"), Ord("r"), Ord("t"), BSLASH} /\ ~IsDigit(nxt)) =>
                   out' = Append(out, nxt)
              /\ ~IsDigit(nxt) => (i' = i + 2 /\ dpc' = "loop")
    /\ (dpc # "done" /\ dpc' = "done") =>
         /\ ret'.null <=> val = NullToken
         /\ dpc \in {"loop", "join"} => ret' = Some(out)

RECURSIVE ExtraDecimals(_, _, _)
ExtraDecimals(s, j, n) ==
    IF n > 0 /\ j < Len(s) /\ IsDecimal(s[j + 1])
    THEN 1 + ExtraDecimals(s, j + 1, n - 1)
    ELSE 0

DecimalRun(s, j) == SubSeq(s, j, j + ExtraDecimals(s, j, MaxExtraDigits))

C10Step ==
    (/\ dpc = "loop" /\ i + 1 < Len(val)
     /\ val[i + 1] = BSLASH /\ IsDecimal(val[i + 2])
     /\ DecoderMoved) =>
        LET run == DecimalRun(val, i + 2) IN
        /\ i' = i + 1 + Len(run)
        /\ out' = IF OctOk(run) THEN Append(out, OctValue(run))
                  ELSE out \o << BSLASH >> \o run
        /\ dpc' = "loop"

\* C10: a backslash followed by a decimal digit consumes that digit and at
\* most two further consecutive decimal digits, emits the character whose code
\* point is the run read as octal, or the backslash and the run unchanged when
\* the run is not octal, and decoding resumes right after the run.
C10_OctalEscape == [][C10Step]_vars

\* The same, for values whose digits are all decimal digits.
AsciiDigitsOnly == \A k \in DOMAIN val : IsDigit(val[k]) => IsDecimal(val[k])

C10_OctalEscapeAscii == [][AsciiDigitsOnly => C10Step]_vars

\* Every call returns.
DecoderTerminates == <>(dpc = "done")

\* The step-by-step decoder and the operator unescape_pg agree.
DecoderIsOperator == dpc = "done" => ret = unescape_pg(val)

(***************************************************************************)
(* Properties of the two readers (checked under Spec)                      *)
(***************************************************************************)
Keys(cnts) == {cnts[p][1] : p \in DOMAIN cnts}

\* The decoded column c of a line parses as an integer: that integer, as a
\* one-element set (empty when the line has no such column, the column
\* decodes to null or does not parse).
DecodedInt(line, c) ==
    LET parts == Parts(line) IN
    IF Len(parts) < c THEN {}
    ELSE LET d == unescape_pg(parts[c]) IN
         IF d.null THEN {}
         ELSE IF IntParse(d.s).ok THEN {IntParse(d.s).v} ELSE {}

\* An edit line that counts for editor e: at least 4 fields, column 1 is e
\* and column 3 is 2.
AppliedBy(line, e) ==
    /\ Len(Parts(line)) >= 4
    /\ DecodedInt(line, 2) = {e}
    /\ DecodedInt(line, 4) = {2}

\* C1: while count_applied_edits reads, the mapping holds for each editor id
\* exactly the number of lines read that have at least 4 fields, that id in
\* column 1 and status 2 in column 3; ids are held once, and none with a
\* count of 0 (also once the mapping is returned).
C1_CountsAreAppliedLines ==
    /\ pc = "count" =>
         /\ \A p \in DOMAIN counts :
              counts[p][2] =
                Cardinality({k \in DOMAIN lines : AppliedBy(lines[k], counts[p][1])})
         /\ \A k \in DOMAIN lines : \A e \in DecodedInt(lines[k], 2) :
              AppliedBy(lines[k], e) => e \in Keys(counts)
    /\ \A p, q \in DOMAIN counts : counts[p][1] = counts[q][1] => p = q
    /\ \A p \in DOMAIN counts : counts[p][2] >= 1

\* C1 witness: three lines read, two of them applied edits of one editor and
\* one with another status.
C1_Witness ==
    /\ pc = "count" /\ Len(lines) = 3
    /\ \E p \in DOMAIN counts : counts[p][2] = 2
    /\ \E k \in DOMAIN lines :
         /\ DecodedInt(lines[k], 4) # {} /\ DecodedInt(lines[k], 4) # {2}
         /\ DecodedInt(lines[k], 2) # {}

\* An editor line that names an id: at least 2 fields and an integer in
\* column 0 (the column as it stands in the file).
EditorLineId(line) ==
    LET parts == Parts(line) IN
    IF Len(parts) >= 2 /\ IntParse(parts[1]).ok THEN {IntParse(parts[1]).v} ELSE {}

\* C7: while load_editors reads, the name mapping holds exactly the ids of
\* the lines read with at least 2 fields and an integer in column 0, each with
\* the decoded name of the last such line ("" for an empty or null name).
C7_LastNameWins ==
    pc = "load" =>
      /\ DOMAIN eid_to_name = UNION {EditorLineId(lines[k]) : k \in DOMAIN lines}
      /\ \A e \in DOMAIN eid_to_name :
           LET last == SetMax({k \in DOMAIN lines : EditorLineId(lines[k]) = {e}})
               name == unescape_pg(Parts(lines[last])[2])
           IN  eid_to_name[e] = IF name.null THEN << >> ELSE name.s

\* C7 witness: two lines for the same id have been read, with different
\* names, and the mapping holds the second.
C7_Witness ==
    /\ pc = "load" /\ Len(lines) = 2
    /\ EditorLineId(lines[1]) # {} /\ EditorLineId(lines[1]) = EditorLineId(lines[2])
    /\ Parts(lines[1])[2] # Parts(lines[2])[2]
    /\ \E e \in EditorLineId(lines[2]) :
         eid_to_name[e] = OrEmpty(unescape_pg(Parts(lines[2])[2]))

MalformedEditorLine(line) == EditorLineId(line) = {}

MalformedEditLine(line) ==
    \/ Len(Parts(line)) < 4
    \/ DecodedInt(line, 2) = {}
    \/ DecodedInt(line, 4) = {}

C9Step ==
    /\ (pc = "load" /\ Len(lines') = Len(lines) + 1
        /\ MalformedEditorLine(lines'[Len(lines')])) =>
          (eid_to_name' = eid_to_name /\ pc' = "load")
    /\ (pc = "count" /\ Len(lines') = Len(lines) + 1
        /\ MalformedEditLine(lines'[Len(lines')])) =>
          (counts' = counts /\ pc' = "count")

\* C9: a malformed line (too few fields, an id or status that does not parse
\* or decodes to null) leaves the mapping built so far as it was, adds no key
\* and alters no counter, and the reader goes on to the next line.
C9_MalformedLineSkipped == [][C9Step]_vars

\* C9 witness: the edit reader has skipped a line whose status is 2 and whose
\* editor id is not an integer, after it had counted an edit, and the count is
\* as it was.
C9_Witness ==
    /\ pc = "count" /\ Len(lines) = 2
    /\ AppliedBy(lines[1], 7)
    /\ Len(Parts(lines[2])) >= 4
    /\ DecodedInt(lines[2], 4) = {2} /\ DecodedInt(lines[2], 2) = {}
    /\ unescape_pg(Parts(lines[2])[2]) # None
    /\ counts = << << 7, 1 >> >>

(***************************************************************************)
(* Properties of the rows and of the CSV (checked under Spec)              *)
(***************************************************************************)
\* The name is "(editor #", the decimal form of eid, ")".
IsPlaceholderFor(name, eid) ==
    LET pre == Text(<< "(", "e", "d", "i", "t", "o", "r", " ", "#" >>) IN
    /\ Len(name) > Len(pre) + 1
    /\ SubSeq(name, 1, Len(pre)) = pre
    /\ name[Len(name)] = Ord(")")
    /\ LET num == SubSeq(name, Len(pre) + 1, Len(name) - 1)
       IN  /\ \A k \in DOMAIN num : IsDecimal(num[k]) \/ (k = 1 /\ num[k] = Ord("-"))
           /\ IntParse(num) = [ok |-> TRUE, v |-> eid]

\* C4: every id of the count mapping gets a row; its name is the placeholder
\* "(editor #<id>)" when the id is no key of the name mapping and the mapping's
\* value otherwise, also when that value is empty; every count is at least 1.
C4_NameOrPlaceholder ==
    pc \in {"sort", "top", "write", "done"} =>
      /\ {rows[k][1] : k \in DOMAIN rows} = Keys(counts)
      /\ Len(rows) = Len(counts)
      /\ \A k \in DOMAIN rows :
           /\ rows[k][3] >= 1
           /\ IF rows[k][1] \in DOMAIN eid_to_name
              THEN rows[k][2] = eid_to_name[rows[k][1]]
              ELSE IsPlaceholderFor(rows[k][2], rows[k][1])
      /\ \A k \in 2 .. Len(csv) :
           csv[k][2] \in Keys(counts) /\ csv[k][4] >= 1

\* C4 witness: the rows hold an editor without a name line, under its
\* placeholder, and an editor whose name is empty, under the empty name.
C4_Witness ==
    /\ pc = "done"
    /\ \E k \in DOMAIN rows :
         rows[k][1] \notin DOMAIN eid_to_name /\ IsPlaceholderFor(rows[k][2], rows[k][1])
    /\ \E k \in DOMAIN rows :
         rows[k][1] \in DOMAIN eid_to_name /\ rows[k][2] = << >>

NeedsQuoting(name) == \E c \in {COMMA, QUOTE, NL, CR} : Contains(name, c)

\* Every double quote of s is one of a pair.
RECURSIVE QuotesPaired(_)
QuotesPaired(s) ==
    IF s = << >> THEN TRUE
    ELSE IF s[1] # QUOTE THEN QuotesPaired(Tail(s))
    ELSE Len(s) >= 2 /\ s[2] = QUOTE /\ QuotesPaired(Tail(Tail(s)))

\* s with each pair of double quotes made one.
RECURSIVE Undouble(_)
Undouble(s) ==
    IF s = << >> THEN << >>
    ELSE IF s[1] = QUOTE /\ Len(s) >= 2
    THEN << QUOTE >> \o Undouble(Tail(Tail(s)))
    ELSE << s[1] >> \o Undouble(Tail(s))

\* C6: the name field of each data line is the name between double quotes,
\* its own double quotes doubled, exactly when the name holds a comma, a
\* double quote, a newline or a carriage return; otherwise it is the name.
C6_NameQuoting ==
    pc = "done" =>
      \A k \in DOMAIN top :
        LET name  == top[k][2]
            field == csv[k + 1][3]
        IN  IF NeedsQuoting(name)
            THEN /\ Len(field) >= 2
                 /\ field[1] = QUOTE /\ field[Len(field)] = QUOTE
                 /\ LET inner == SubSeq(field, 2, Len(field) - 1)
                    IN  QuotesPaired(inner) /\ Undouble(inner) = name
            ELSE field = name

\* C6 witness: a CSV with a name that holds a comma and a double quote, a
\* name that holds only a carriage return, and a name written as it is.
C6_Witness ==
    /\ pc = "done"
    /\ \E k \in DOMAIN top : Contains(top[k][2], QUOTE) /\ Contains(top[k][2], COMMA)
    /\ \E k \in DOMAIN top : Contains(top[k][2], CR) /\ ~Contains(top[k][2], QUOTE)
    /\ \E k \in DOMAIN top : ~NeedsQuoting(top[k][2]) /\ top[k][2] # << >>

(***************************************************************************)
(* Properties of the ranking (checked under SpecRank)                      *)
(***************************************************************************)
\* The place of each id in the count mapping's insertion order.
InsertionIndex ==
    [e \in Keys(counts) |-> CHOOSE p \in DOMAIN counts : counts[p][1] = e]

\* C2: once sorted, the rows are the rows of the count mapping ordered by
\* count, largest first, and rows of equal count are in the order in which
\* their ids were inserted into the count mapping; the data lines written
\* follow that order.  (Stated for neighbours: the whole order follows.)
C2_StableDescending ==
    /\ pc \in {"top", "write", "done"} =>
         LET ix == InsertionIndex IN
         /\ Len(rows) = Len(counts)
         /\ {rows[k] : k \in DOMAIN rows}
              = {BuildRows(eid_to_name, counts)[k] : k \in DOMAIN counts}
         /\ \A a \in 1 .. (Len(rows) - 1) :
              /\ rows[a][3] >= rows[a + 1][3]
              /\ rows[a][3] = rows[a + 1][3] => ix[rows[a][1]] < ix[rows[a + 1][1]]
    /\ pc = "done" =>
         \A k \in 2 .. Len(csv) : csv[k][2] = rows[k - 1][1]

\* C2 witness: a written ranking in which two neighbours have equal counts
\* and two neighbours are in the opposite of their insertion order.
C2_Witness ==
    /\ pc = "done" /\ Len(csv) > 3
    /\ \E a \in 1 .. (Len(rows) - 1) : rows[a][3] = rows[a + 1][3]
    /\ \E a \in 1 .. (Len(rows) - 1) :
         InsertionIndex[rows[a][1]] > InsertionIndex[rows[a + 1][1]]

\* C3: top_editors.csv is the header line and then N = min(500, number of ids
\* in the count mapping) data lines, the first N rows of the sorted list, and
\* the rank of the k-th data line is k.
C3_TopRowsRanked ==
    pc = "done" =>
      LET n == IF Len(counts) < 500 THEN Len(counts) ELSE 500 IN
      /\ csv[1] = CsvHeader
      /\ Len(csv) = 1 + n
      /\ \A k \in 1 .. n :
           /\ csv[k + 1][1] = k
           /\ csv[k + 1][2] = rows[k][1]
           /\ csv[k + 1][4] = rows[k][3]

\* C3 witness: a count mapping of 501 ids has been written as 500 data lines.
C3_Witness ==
    /\ pc = "done"
    /\ Len(counts) = 501
    /\ Len(csv) = 501
    /\ csv[501][1] = 500

(***************************************************************************)
(* Properties of ensure_required_files and main (checked under FairFiles)  *)
(***************************************************************************)
EditorMissing == EditorSanitisedPath \notin files /\ EditorPath \notin files
EditMissing   == EditPath \notin files

Attempted(what) == \E k \in DOMAIN attempts : attempts[k][1] = what

\* A required file is absent and there is no archive for it, or it is still
\* absent after the extraction attempted for it.
C8Fatal ==
    \/ pc = "check_editor" /\ EditorMissing /\ FindTar(tars, "mbdump-editor") = "none"
    \/ pc = "check_edit" /\ EditMissing /\ FindTar(tars, "mbdump-edit") = "none"
    \/ pc \in {"check_edit", "check_final"} /\ Attempted("editor") /\ EditorMissing
    \/ pc = "check_final" /\ Attempted("edit") /\ EditMissing

C8Step ==
    \* the process has ended: nothing more happens
    /\ pc = "exit" => UNCHANGED vars
    \* it ends early with a status other than 0, no table read, no CSV
    /\ pc' = "exit" =>
         (status' \notin {"running", "0"} /\ opened' = {} /\ CsvPath \notin files')
    \* in a fatal case it does not go on to the tables
    /\ C8Fatal => pc' \in {"check_edit", "check_final", "exit"}
    \* ensure_required_files returns only with both files there
    /\ (pc = "check_final" /\ pc' = "open_editors") =>
         (editor_file' \in files' /\ edit_file' \in files')
    \* a table is opened only after that
    /\ opened' # opened => (editor_file \in files /\ edit_file \in files)
    \* an extraction is attempted only for a missing file, and once
    /\ attempts' # attempts =>
         LET a == attempts'[Len(attempts')] IN
         /\ attempts' = Append(attempts, a)
         /\ ~Attempted(a[1])
         /\ a[1] = "editor" => EditorMissing
         /\ a[1] = "edit" => EditMissing

\* C8: when a required file is absent and no archive matches, or is still
\* absent after the one extraction attempted for it, the process ends with a
\* status other than 0 before a table is read and without writing
\* top_editors.csv; ensure_required_files returns only when both paths it
\* returns are files; nothing is extracted for a file that is there.
C8_MissingFilesAreFatal ==
    /\ [][C8Step]_vars
    /\ C8Fatal ~> (pc = "exit" /\ status = "1")

\* C8 witness: the editor archive was read and held no member of the wanted
\* names, the edit table was there, and the process has ended with status 1.
C8_Witness ==
    /\ pc = "exit" /\ status = "1"
    /\ attempts = << << "editor", "editor" >> >>
    /\ tars.editor.readable /\ tars.editor.members # << >>
    /\ EditorMissing /\ ~EditMissing
    /\ opened = {} /\ CsvPath \notin files

====
